---- MODULE Spec2Model ----
(***************************************************************************)
(* Transaction API of the expense tracker: the request handlers of         *)
(* app/routers/transactions.py over the record Store (MySQL through        *)
(* SQLAlchemy) and the Redis cache client of app/cache.py.                 *)
(*                                                                         *)
(* In Spec, SpecReliable and SpecStore requests are handled one at a time:  *)
(* one action is one whole handler. Every Redis call of a handler may fail *)
(* on its own (the backend raises), Redis keeps its contents across such   *)
(* failures, and entries expire when their TTL has run out on the clock    *)
(* `now`. SpecConc interleaves the handlers at their awaited calls, and    *)
(* SpecOps is the startup hook of app/main.py followed by GET /health.     *)
(***************************************************************************)
EXTENDS Integers, Sequences, FiniteSets, TLC

VARIABLES
    store,      \* table `transactions`: id -> row, for the rows present
    nextId,     \* the table's AUTO_INCREMENT counter
    cache,      \* Redis: key -> [data, exp], for the keys present
    now,        \* wall clock, in seconds
    last,       \* the last request: op, arg, at, status, body, calls
    created,    \* history: ids returned by a successful create
    deleted,    \* history: id -> "was cached when deleted", for each 204 delete
    served,     \* history: the number of requests served so far
    boot,       \* the startup hook of app/main.py: its loop variables and position
    health,     \* GET /health: the hits in the limiter's window, the last answer
    procs,      \* requests in flight when handlers interleave: slot -> position
    writeLog    \* history: completion times of the creates and deletes

vars == <<store, nextId, cache, now, last, created, deleted, served,
          boot, health, procs, writeLog>>

(* the variables outside the one-at-a-time request handling *)
service == <<boot, health>>
inflight == <<procs, writeLog>>

----------------------------------------------------------------------------
(* Bounds of the model *)

MaxRequests == 4    \* a run serves at most this many requests
MaxTicks == 2       \* the clock covers one item TTL in this many advances
MaxInflight == 2    \* interleaved runs hold at most this many requests in flight

(* Program constants *)

ItemTTL == 300      \* get_transaction: cache.set(..., ttl=300)
ListTTL == 60       \* get_transactions: cache.set(..., ttl=60)
retries == 5        \* startup: retries = 5
wait_time == 2      \* startup: wait_time = 2, the first sleep
HealthRateLimit == 30   \* health_check: @limiter.limit("30/minute")

TickStep == ItemTTL \div MaxTicks   \* seconds per clock advance

NoneStr == "None"   \* Python None in a str-typed field
NoneDt == <<>>      \* Python None in a datetime-typed field

(* Request bodies of POST /transactions: JSON objects, a key may be absent *)
Payloads ==
    { [amount |-> 42, merchant |-> "Coffee Shop"],
      [amount |-> 7, currency |-> "EUR", description |-> "lunch", merchant |-> "Cafe"],
      [amount |-> 0, merchant |-> "Cafe"],
      [amount |-> 42, currency |-> "USD"],
      [amount |-> 42, merchant |-> ""],
      [amount |-> 42, currency |-> "US", merchant |-> "Cafe"],
      [amount |-> 42, currency |-> "EURO", merchant |-> "Cafe"] }

(* Path ids of GET/DELETE /transactions/{id}: every id assigned so far,   *)
(* and the first one that never was                                        *)
Ids == 1..nextId

(* (skip, limit) query pairs of GET /transactions *)
Pages == { <<0, 2>>, <<1, 1>> }

----------------------------------------------------------------------------
(* app/schemas.py *)

Has(p, f) == f \in DOMAIN p

(* TransactionBase with amount ge=0 in place of gt=0 *)
Valid_ge(p) ==
    /\ Has(p, "amount") /\ p.amount >= 0
    /\ Has(p, "currency") => Len(p.currency) = 3
    /\ Has(p, "merchant") /\ Len(p.merchant) >= 1

(* TransactionBase field constraints: amount gt=0 (required), currency     *)
(* min_length=max_length=3, merchant min_length=1 (required).              *)
Valid(p) ==
    /\ Has(p, "amount") /\ p.amount > 0
    /\ Has(p, "currency") => Len(p.currency) = 3
    /\ Has(p, "merchant") /\ Len(p.merchant) >= 1

\* TransactionCreate whose description field is not carried over
TransactionCreate_drops_description(p) ==
    [ amount      |-> p.amount,
      currency    |-> IF Has(p, "currency") THEN p.currency ELSE "USD",
      description |-> NoneStr,
      merchant    |-> p.merchant ]

\* TransactionCreate.model_dump(): the validated body, defaults filled in
TransactionCreate(p) ==
    [ amount      |-> p.amount,
      currency    |-> IF Has(p, "currency") THEN p.currency ELSE "USD",
      description |-> IF Has(p, "description") THEN p.description ELSE NoneStr,
      merchant    |-> p.merchant ]

(* datetime values, and their ISO-8601 text *)
Datetime(t) == <<"datetime", t>>
isoformat(d) == IF d = NoneDt THEN NoneDt ELSE <<"iso", d[2]>>
fromisoformat(s) == IF s = NoneDt THEN NoneDt ELSE <<"datetime", s[2]>>

(* TransactionResponse.model_validate(row): from_attributes=True *)
model_validate(row) ==
    [ id          |-> row.id,
      amount      |-> row.amount,
      currency    |-> row.currency,
      description |-> row.description,
      merchant    |-> row.merchant,
      date        |-> row.date,
      created_at  |-> row.created_at,
      updated_at  |-> row.updated_at ]

(* TransactionResponse.model_dump(mode='json'): datetimes become ISO text *)
model_dump_json(r) ==
    [ r EXCEPT !.date = isoformat(@),
               !.created_at = isoformat(@),
               !.updated_at = isoformat(@) ]

\* TransactionResponse built from cached_data: ISO text parsed back to datetimes
TransactionResponse(d) ==
    [ d EXCEPT !.date = fromisoformat(@),
               !.created_at = fromisoformat(@),
               !.updated_at = fromisoformat(@) ]

(* TransactionList(transactions=[...], total=...) and its dump / parse *)
TransactionList(ts, total) == [transactions |-> ts, total |-> total]

list_dump_json(l) ==
    [ transactions |-> [i \in DOMAIN l.transactions |-> model_dump_json(l.transactions[i])],
      total        |-> l.total ]

TransactionListParse(d) ==
    [ transactions |-> [i \in DOMAIN d.transactions |-> TransactionResponse(d.transactions[i])],
      total        |-> d.total ]

----------------------------------------------------------------------------
(* app/models/transaction.py and the Store *)

(* INSERT: the Store assigns id (AUTO_INCREMENT), date and created_at      *)
(* (server_default now()); updated_at stays NULL.                          *)
InsertRow(fields, id, t) ==
    [ id          |-> id,
      amount      |-> fields.amount,
      currency    |-> fields.currency,
      description |-> fields.description,
      merchant    |-> fields.merchant,
      date        |-> Datetime(t),
      created_at  |-> Datetime(t),
      updated_at  |-> NoneDt ]

RECURSIVE SortedIds(_)
SortedIds(S) ==
    IF S = {} THEN <<>>
    ELSE LET m == CHOOSE x \in S : \A y \in S : x <= y
         IN <<m>> \o SortedIds(S \ {m})

Min(a, b) == IF a <= b THEN a ELSE b
Max(a, b) == IF a >= b THEN a ELSE b

(* The select with its limit left out: every row from the offset on *)
SelectPage_no_limit(st, skip, limit) ==
    LET ids == SortedIds(DOMAIN st)
    IN [i \in 1..Max(0, Len(ids) - skip) |-> st[ids[skip + i]]]

(* select(Transaction).offset(skip).limit(limit): rows in primary-key order *)
SelectPage(st, skip, limit) ==
    LET ids == SortedIds(DOMAIN st)
        hi  == Min(Len(ids), skip + limit)
    IN [i \in 1..Max(0, hi - skip) |-> st[ids[skip + i]]]

----------------------------------------------------------------------------
(* app/cache.py and Redis *)

(* A single-item key that leaves the id out *)
ItemKey_shared(id) == <<"transaction", 0>>

(* Cache keys, as their ':'-separated segments *)
ItemKey(id) == <<"transaction", id>>
ListKey(skip, limit) == <<"transactions", "all", skip, limit>>
WildcardKey == <<"transactions", "all", "*">>

json_dumps(v) == [json |-> v]
json_loads(s) == s.json

(* Redis GET: the value of a key that is present and not expired *)
Live(c, key, t) == key \in DOMAIN c /\ c[key].exp > t

(* Redis SET key value EX ttl *)
RedisSet(c, key, data, ttl, t) ==
    [k \in DOMAIN c \cup {key} |-> IF k = key THEN [data |-> data, exp |-> t + ttl] ELSE c[k]]

(* Redis DEL key: removes the key of exactly that name *)
RedisDel(c, key) == [k \in DOMAIN c \ {key} |-> c[k]]

(* Cache.get that reports every lookup as absent *)
CacheGet_always_miss(c, key, t, fail) == [raised |-> FALSE, found |-> FALSE, value |-> <<>>]

(* Cache.get: [raised, found, value]; a backend error is caught and gives None *)
CacheGet(c, key, t, fail) ==
    IF fail THEN [raised |-> FALSE, found |-> FALSE, value |-> <<>>]
    ELSE IF Live(c, key, t)
         THEN [raised |-> FALSE, found |-> TRUE, value |-> json_loads(c[key].data)]
         ELSE [raised |-> FALSE, found |-> FALSE, value |-> <<>>]

(* Cache.set without its try/except: the backend error escapes *)
CacheSet_raises(c, key, value, ttl, t, fail) ==
    IF fail THEN [raised |-> TRUE, cache |-> c]
    ELSE [raised |-> FALSE, cache |-> RedisSet(c, key, json_dumps(value), ttl, t)]

(* Cache.set: [raised, cache]; a backend error is caught *)
CacheSet(c, key, value, ttl, t, fail) ==
    IF fail THEN [raised |-> FALSE, cache |-> c]
    ELSE [raised |-> FALSE, cache |-> RedisSet(c, key, json_dumps(value), ttl, t)]

(* Cache.delete that never reaches Redis *)
CacheDelete_noop(c, key, fail) == [raised |-> FALSE, cache |-> c]

(* Cache.delete: [raised, cache]; a backend error is caught *)
CacheDelete(c, key, fail) ==
    IF fail THEN [raised |-> FALSE, cache |-> c]
    ELSE [raised |-> FALSE, cache |-> RedisDel(c, key)]

(* The record of one backend call a handler made *)
Call(name, key, ok) == [call |-> name, key |-> key, ok |-> ok, ttl |-> 0]
SetCall(key, ok, ttl) == [call |-> "cache.set", key |-> key, ok |-> ok, ttl |-> ttl]
DbCall(name) == Call(name, <<>>, TRUE)

----------------------------------------------------------------------------
(* app/routers/transactions.py: the handlers, as functions of the state    *)
(* they read. Each yields [store, nextId, cache, status, body, calls].     *)

Outcome(st, nid, c, status, body, calls) ==
    [store |-> st, nextId |-> nid, cache |-> c, status |-> status, body |-> body, calls |-> calls]

NotFoundBody == [detail |-> "Transaction not found"]
ValidationBody == [detail |-> "validation error"]
ServerErrorBody == [detail |-> "Internal Server Error"]
NoContent == [detail |-> ""]

(* An exception that escapes a handler: 500, nothing after it runs *)
Unhandled(st, nid, c, calls) == Outcome(st, nid, c, 500, ServerErrorBody, calls)

(* `if cached_data:` - None and an empty dict are falsy *)
Truthy(g) == g.found /\ DOMAIN g.value # {}

(* The response_model serialisation of a returned TransactionResponse / TransactionList *)
Respond(r) == model_dump_json(r)
RespondList(l) == list_dump_json(l)

(* GET by id that also caches the answer for an id the Store does not hold *)
get_transaction_caches_absent(st, nid, c, t, id, fg, fs) ==
    LET key == ItemKey(id)
        g   == CacheGet(c, key, t, fg)
        c1  == <<Call("cache.get", key, ~fg)>>
        c2  == Append(c1, DbCall("db.select"))
        c3  == Append(c2, SetCall(key, ~fs, ItemTTL))
    IN  IF Truthy(g)
        THEN Outcome(st, nid, c, IF Has(g.value, "id") THEN 200 ELSE 404,
                     IF Has(g.value, "id") THEN Respond(TransactionResponse(g.value))
                     ELSE NotFoundBody, c1)
        ELSE IF id \notin DOMAIN st
             THEN Outcome(st, nid, CacheSet(c, key, NotFoundBody, ItemTTL, t, fs).cache,
                          404, NotFoundBody, c3)
             ELSE Outcome(st, nid,
                          CacheSet(c, key, model_dump_json(model_validate(st[id])), ItemTTL, t, fs).cache,
                          200, Respond(model_validate(st[id])), c3)

(* GET /transactions/{transaction_id} *)
get_transaction(st, nid, c, t, id, fg, fs) ==
    LET key == ItemKey(id)
        g   == CacheGet(c, key, t, fg)
        c1  == <<Call("cache.get", key, ~fg)>>
    IN  IF g.raised THEN Unhandled(st, nid, c, c1)
        ELSE IF Truthy(g)
        THEN Outcome(st, nid, c, 200, Respond(TransactionResponse(g.value)), c1)
        ELSE LET c2 == Append(c1, DbCall("db.select"))
             IN  IF id \notin DOMAIN st
                 THEN Outcome(st, nid, c, 404, NotFoundBody, c2)
                 ELSE LET response == model_validate(st[id])
                          s  == CacheSet(c, key, model_dump_json(response), ItemTTL, t, fs)
                          c3 == Append(c2, SetCall(key, ~fs, ItemTTL))
                      IN  IF s.raised THEN Unhandled(st, nid, c, c3)
                          ELSE Outcome(st, nid, s.cache, 200, Respond(response), c3)

(* GET /transactions?skip&limit *)
get_transactions(st, nid, c, t, skip, limit, fg, fs) ==
    LET key == ListKey(skip, limit)
        g   == CacheGet(c, key, t, fg)
        c1  == <<Call("cache.get", key, ~fg)>>
    IN  IF g.raised THEN Unhandled(st, nid, c, c1)
        ELSE IF Truthy(g)
        THEN Outcome(st, nid, c, 200, RespondList(TransactionListParse(g.value)), c1)
        ELSE LET transactions == SelectPage(st, skip, limit)
                 response == TransactionList(
                                 [i \in DOMAIN transactions |-> model_validate(transactions[i])],
                                 Len(transactions))
                 s  == CacheSet(c, key, list_dump_json(response), ListTTL, t, fs)
                 c3 == c1 \o <<DbCall("db.select"), SetCall(key, ~fs, ListTTL)>>
             IN  IF s.raised THEN Unhandled(st, nid, c, c3)
                 ELSE Outcome(st, nid, s.cache, 200, RespondList(response), c3)

(* POST that also writes the new record to the single-item cache *)
create_transaction_write_through(st, nid, c, t, payload, fd) ==
    IF ~Valid(payload) THEN Outcome(st, nid, c, 422, ValidationBody, <<>>)
    ELSE LET db_transaction == InsertRow(TransactionCreate(payload), nid, t)
             st1 == [i \in DOMAIN st \cup {nid} |-> IF i = nid THEN db_transaction ELSE st[i]]
             d   == CacheDelete(c, WildcardKey, fd)
             w   == CacheSet(d.cache, ItemKey(nid), model_dump_json(model_validate(db_transaction)),
                             ItemTTL, t, FALSE)
             cs  == <<DbCall("db.add"), DbCall("db.commit"), DbCall("db.refresh"),
                      Call("cache.delete", WildcardKey, ~fd), SetCall(ItemKey(nid), TRUE, ItemTTL)>>
         IN  Outcome(st1, nid + 1, w.cache, 201, Respond(model_validate(db_transaction)), cs)

(* POST /transactions: the body is validated before the handler runs *)
create_transaction(st, nid, c, t, payload, fd) ==
    IF ~Valid(payload) THEN Outcome(st, nid, c, 422, ValidationBody, <<>>)
    ELSE LET db_transaction == InsertRow(TransactionCreate(payload), nid, t)
             st1 == [i \in DOMAIN st \cup {nid} |-> IF i = nid THEN db_transaction ELSE st[i]]
             d   == CacheDelete(c, WildcardKey, fd)
             cs  == <<DbCall("db.add"), DbCall("db.commit"), DbCall("db.refresh"),
                      Call("cache.delete", WildcardKey, ~fd)>>
         IN  IF d.raised THEN Unhandled(st1, nid + 1, c, cs)
             ELSE Outcome(st1, nid + 1, d.cache, 201, Respond(model_validate(db_transaction)), cs)

(* DELETE without the existence check: deletes and invalidates regardless *)
delete_transaction_no_check(st, nid, c, id, f1, f2) ==
    LET st1 == [i \in DOMAIN st \ {id} |-> st[i]]
        d1  == CacheDelete(c, ItemKey(id), f1)
        d2  == CacheDelete(d1.cache, WildcardKey, f2)
        cs  == <<DbCall("db.select"), DbCall("db.delete"), DbCall("db.commit"),
                 Call("cache.delete", ItemKey(id), ~f1),
                 Call("cache.delete", WildcardKey, ~f2)>>
    IN  Outcome(st1, nid, d2.cache, 204, NoContent, cs)

(* DELETE /transactions/{transaction_id} *)
delete_transaction(st, nid, c, id, f1, f2) ==
    LET c1 == <<DbCall("db.select")>>
    IN  IF id \notin DOMAIN st THEN Outcome(st, nid, c, 404, NotFoundBody, c1)
        ELSE LET st1 == [i \in DOMAIN st \ {id} |-> st[i]]
                 d1  == CacheDelete(c, ItemKey(id), f1)
                 c2  == c1 \o <<DbCall("db.delete"), DbCall("db.commit"),
                                Call("cache.delete", ItemKey(id), ~f1)>>
                 d2  == CacheDelete(d1.cache, WildcardKey, f2)
                 c3  == Append(c2, Call("cache.delete", WildcardKey, ~f2))
             IN  IF d1.raised THEN Unhandled(st1, nid, c, c2)
                 ELSE IF d2.raised THEN Unhandled(st1, nid, d1.cache, c3)
                 ELSE Outcome(st1, nid, d2.cache, 204, NoContent, c3)

(* A Store call that raised: the exception leaves the handler *)
DbFailed(name) == Call(name, <<>>, FALSE)

(* Where a Store call of a create may raise: the commit (the row is not     *)
(* stored; an id the rolled-back INSERT may have consumed is not modelled)  *)
(* or the refresh after the commit (the row is stored).                     *)
CreateDbFaults == {"none", "commit", "refresh"}

(* Where a Store call of a delete may raise *)
DeleteDbFaults == {"none", "select", "commit"}

(* POST that invalidates the list cache although its commit raised *)
create_transaction_db_finally(st, nid, c, t, payload, fd, dbFail) ==
    IF Valid(payload) /\ dbFail = "commit"
    THEN Outcome(st, nid,
                 CacheDelete(c, WildcardKey, fd).cache, 500, ServerErrorBody,
                 <<DbCall("db.add"), DbFailed("db.commit"),
                   Call("cache.delete", WildcardKey, ~fd)>>)
    ELSE create_transaction(st, nid, c, t, payload, fd)

(* POST /transactions with the Store calls able to raise: nothing after the *)
(* raising call runs, and FastAPI answers 500                               *)
create_transaction_db(st, nid, c, t, payload, fd, dbFail) ==
    IF ~Valid(payload) \/ dbFail = "none"
    THEN create_transaction(st, nid, c, t, payload, fd)
    ELSE LET db_transaction == InsertRow(TransactionCreate(payload), nid, t)
             st1 == [i \in DOMAIN st \cup {nid} |-> IF i = nid THEN db_transaction ELSE st[i]]
         IN  CASE dbFail = "commit" ->
                    Unhandled(st, nid, c, <<DbCall("db.add"), DbFailed("db.commit")>>)
               [] dbFail = "refresh" ->
                    Unhandled(st1, nid + 1, c,
                              <<DbCall("db.add"), DbCall("db.commit"), DbFailed("db.refresh")>>)

(* DELETE that invalidates before it commits *)
delete_transaction_db_invalidate_first(st, nid, c, id, f1, f2, dbFail) ==
    IF dbFail = "commit" /\ id \in DOMAIN st
    THEN LET d1 == CacheDelete(c, ItemKey(id), f1)
             d2 == CacheDelete(d1.cache, WildcardKey, f2)
         IN  Unhandled(st, nid, d2.cache,
                       <<DbCall("db.select"), DbCall("db.delete"),
                         Call("cache.delete", ItemKey(id), ~f1),
                         Call("cache.delete", WildcardKey, ~f2), DbFailed("db.commit")>>)
    ELSE IF dbFail = "select" THEN Unhandled(st, nid, c, <<DbFailed("db.select")>>)
    ELSE delete_transaction(st, nid, c, id, f1, f2)

(* DELETE /transactions/{transaction_id} with the Store calls able to raise *)
delete_transaction_db(st, nid, c, id, f1, f2, dbFail) ==
    IF dbFail = "select" THEN Unhandled(st, nid, c, <<DbFailed("db.select")>>)
    ELSE IF dbFail = "commit" /\ id \in DOMAIN st
         THEN Unhandled(st, nid, c,
                        <<DbCall("db.select"), DbCall("db.delete"), DbFailed("db.commit")>>)
         ELSE delete_transaction(st, nid, c, id, f1, f2)

----------------------------------------------------------------------------
(* The state machine *)

SomeCallFailed(calls) == \E i \in DOMAIN calls : ~calls[i].ok

(* A run serves a bounded number of requests *)
CanServe == served < MaxRequests

(* One request served: the handler's effects, and the histories *)
Serve(op, arg, out) ==
    /\ store' = out.store
    /\ nextId' = out.nextId
    /\ cache' = out.cache
    /\ last' = [op |-> op, arg |-> arg, at |-> now, status |-> out.status,
                body |-> out.body, calls |-> out.calls]
    /\ created' = IF op = "create" /\ out.status = 201
                  THEN created \cup {out.body.id} ELSE created
    /\ deleted' = IF op = "delete" /\ out.status = 204
                  THEN [i \in DOMAIN deleted \cup {arg} |->
                           IF i = arg THEN Live(cache, ItemKey(arg), now) ELSE deleted[i]]
                  ELSE deleted
    /\ served' = served + 1
    /\ UNCHANGED <<now, service, inflight>>

(* The startup hook has connected at its first attempt *)
BootReady == [pc |-> "ready", i |-> 0, wait_time |-> wait_time, attempts |-> 1, slept |-> <<>>]

(* No health check answered yet, the limiter's window empty *)
HealthIdle == [hits |-> 0, seq |-> 0, code |-> 0, dbOk |-> TRUE, pingOk |-> TRUE, body |-> NoContent]

(* No request in flight, no write completed *)
NoProcs == <<>>
NoWrites == [last |-> -1, del |-> <<>>]

Init ==
    /\ store = <<>>
    /\ nextId = 1
    /\ cache = <<>>
    /\ now = 0
    /\ last = [op |-> "none", arg |-> 0, at |-> 0, status |-> 0, body |-> NoContent, calls |-> <<>>]
    /\ created = {}
    /\ deleted = <<>>
    /\ served = 0
    /\ boot = BootReady
    /\ health = HealthIdle
    /\ procs = NoProcs
    /\ writeLog = NoWrites

(* Fails: the outcomes a Redis call may have in this run (TRUE = it fails) *)
CreateReq(Fails) ==
    /\ CanServe
    /\ \E payload \in Payloads, fd \in Fails :
        \E out \in {create_transaction(store, nextId, cache, now, payload, fd)} :
            Serve("create", payload, out)

GetByIdReq(Fails) ==
    /\ CanServe
    /\ \E id \in Ids, fg \in Fails, fs \in Fails :
        \E out \in {get_transaction(store, nextId, cache, now, id, fg, fs)} :
            Serve("get", id, out)

ListReq(Fails) ==
    /\ CanServe
    /\ \E pg \in Pages, fg \in Fails, fs \in Fails :
        \E out \in {get_transactions(store, nextId, cache, now, pg[1], pg[2], fg, fs)} :
            Serve("list", pg, out)

DeleteReq(Fails) ==
    /\ CanServe
    /\ \E id \in Ids, f1 \in Fails, f2 \in Fails :
        \E out \in {delete_transaction(store, nextId, cache, id, f1, f2)} :
            Serve("delete", id, out)

(* Time passes; Redis drops the entries whose TTL has run out *)
Tick ==
    /\ now < MaxTicks * TickStep
    /\ now' = now + TickStep
    /\ cache' = [k \in {k \in DOMAIN cache : cache[k].exp > now + TickStep} |-> cache[k]]
    /\ UNCHANGED <<store, nextId, last, created, deleted, served, service, inflight>>

(* Any Redis call may fail *)
Create == CreateReq(BOOLEAN)
GetById == GetByIdReq(BOOLEAN)
List == ListReq(BOOLEAN)
Delete == DeleteReq(BOOLEAN)

Next == Create \/ GetById \/ List \/ Delete \/ Tick

Spec == Init /\ [][Next]_vars

(* Every Redis call succeeds *)
CreateOk == CreateReq({FALSE})
GetByIdOk == GetByIdReq({FALSE})
ListOk == ListReq({FALSE})
DeleteOk == DeleteReq({FALSE})

NextReliable == CreateOk \/ GetByIdOk \/ ListOk \/ DeleteOk \/ Tick

SpecReliable == Init /\ [][NextReliable]_vars

(* Runs in which the Store calls of create and delete may raise, the cache  *)
(* calls all succeeding                                                     *)
CreateDb ==
    /\ CanServe
    /\ \E payload \in Payloads, fd \in {FALSE}, dbFail \in CreateDbFaults :
        \E out \in {create_transaction_db(store, nextId, cache, now, payload, fd, dbFail)} :
            Serve("create", payload, out)

DeleteDb ==
    /\ CanServe
    /\ \E id \in Ids, f1 \in {FALSE}, f2 \in {FALSE}, dbFail \in DeleteDbFaults :
        \E out \in {delete_transaction_db(store, nextId, cache, id, f1, f2, dbFail)} :
            Serve("delete", id, out)

NextStore == CreateDb \/ DeleteDb \/ GetByIdOk \/ ListOk \/ Tick

SpecStore == Init /\ [][NextStore]_vars

----------------------------------------------------------------------------
(* app/main.py startup, and GET /health behind its rate limit *)

(* schemas.HealthResponse *)
HealthResponse(status, timestamp, database, redis) ==
    [status |-> status, timestamp |-> timestamp, database |-> database, redis |-> redis]

(* Cache.ping: redis.ping() answers True or raises, and a raise gives False *)
ping(fail) == IF fail THEN FALSE ELSE TRUE

RateLimitBody == [detail |-> "Rate limit exceeded: 30 per 1 minute"]

(* The health check that reports ok when either dependency is up *)
health_check_either(t, dbOk, redisFail) ==
    LET db_status    == IF dbOk THEN "up" ELSE "down"
        redis_status == IF ping(redisFail) THEN "up" ELSE "down"
    IN  HealthResponse(IF db_status = "up" \/ redis_status = "up" THEN "ok" ELSE "degraded",
                       t, db_status, redis_status)

(* health_check: dbOk is "db.execute(select(1)) did not raise" *)
health_check(t, dbOk, redisFail) ==
    LET db_status    == IF dbOk THEN "up" ELSE "down"
        redis_status == IF ping(redisFail) THEN "up" ELSE "down"
    IN  HealthResponse(IF db_status = "up" /\ redis_status = "up" THEN "ok" ELSE "degraded",
                       t, db_status, redis_status)

(* The state before the startup hook runs *)
BootStart == [pc |-> "attempt", i |-> 0, wait_time |-> wait_time, attempts |-> 0, slept |-> <<>>]

InitOps ==
    /\ store = <<>>
    /\ nextId = 1
    /\ cache = <<>>
    /\ now = 0
    /\ last = [op |-> "none", arg |-> 0, at |-> 0, status |-> 0, body |-> NoContent, calls |-> <<>>]
    /\ created = {}
    /\ deleted = <<>>
    /\ served = 0
    /\ boot = BootStart
    /\ health = HealthIdle
    /\ procs = NoProcs
    /\ writeLog = NoWrites

requests == <<store, nextId, cache, now, last, created, deleted, served>>

(* The connectivity check that sleeps and goes on after every failure *)
StartupAttempt_always_retries ==
    /\ boot.pc = "attempt"
    /\ \E connected \in BOOLEAN :
         boot' = [boot EXCEPT !.attempts = @ + 1,
                              !.pc = IF connected THEN "ready" ELSE "sleep"]
    /\ UNCHANGED <<requests, health, inflight>>

(* One pass of `for i in range(retries)`: SELECT 1, then break, raise or   *)
(* go on to the sleep                                                      *)
StartupAttempt ==
    /\ boot.pc = "attempt"
    /\ \E connected \in BOOLEAN :
         boot' = [boot EXCEPT !.attempts = @ + 1,
                              !.pc = IF connected THEN "ready"
                                     ELSE IF boot.i = retries - 1 THEN "failed"
                                     ELSE "sleep"]
    /\ UNCHANGED <<requests, health, inflight>>

(* await asyncio.sleep(wait_time); wait_time *= 2; the next i *)
StartupSleep ==
    /\ boot.pc = "sleep"
    /\ boot' = [boot EXCEPT !.slept = Append(@, boot.wait_time),
                            !.wait_time = @ * 2,
                            !.i = @ + 1,
                            !.pc = "attempt"]
    /\ UNCHANGED <<requests, health, inflight>>

(* GET /health, served once startup has completed. The limiter counts the  *)
(* hit first and answers 429 once the window holds more than the limit;    *)
(* hits beyond the first refused one are not followed. seq is the place of *)
(* the answered request in its window.                                     *)
HealthReq ==
    /\ boot.pc = "ready"
    /\ health.hits <= HealthRateLimit
    /\ \E dbOk \in BOOLEAN, redisFail \in BOOLEAN :
         health' = IF health.hits + 1 > HealthRateLimit
                   THEN [hits |-> health.hits + 1, seq |-> health.hits + 1,
                         code |-> 429, dbOk |-> dbOk,
                         pingOk |-> ~redisFail, body |-> RateLimitBody]
                   ELSE [hits |-> health.hits + 1, seq |-> health.hits + 1,
                         code |-> 200, dbOk |-> dbOk,
                         pingOk |-> ~redisFail, body |-> health_check(now, dbOk, redisFail)]
    /\ UNCHANGED <<requests, boot, inflight>>

(* The limiter's one-minute window ends *)
WindowExpires ==
    /\ health.hits > 0
    /\ health' = [health EXCEPT !.hits = 0]
    /\ UNCHANGED <<requests, boot, inflight>>

NextOps == StartupAttempt \/ StartupSleep \/ HealthReq \/ WindowExpires

SpecOps == InitOps /\ [][NextOps]_vars

(* Each connection attempt and each sleep comes to an end *)
SpecOpsFair == SpecOps /\ WF_vars(StartupAttempt) /\ WF_vars(StartupSleep)

----------------------------------------------------------------------------
(* The handlers interleaved: every awaited Store or Redis call of a        *)
(* handler is a step of its own, and other requests may run between two    *)
(* steps. A request takes a free slot and makes its first call when it     *)
(* starts; the step of its last call returns the response. Redis calls     *)
(* all succeed.                                                            *)

IdleProc == [pc |-> "idle"]

Slots == 1..MaxInflight
Busy == {p \in Slots : procs[p].pc # "idle"}
FreeSlot(p) == procs[p].pc = "idle" /\ \A q \in 1..(p - 1) : procs[q].pc # "idle"
CanStart == served + Cardinality(Busy) < MaxRequests

InitConc ==
    /\ store = <<>>
    /\ nextId = 1
    /\ cache = <<>>
    /\ now = 0
    /\ last = [op |-> "none", arg |-> 0, at |-> 0, started |-> 0, afterDelete |-> FALSE,
               status |-> 0, body |-> NoContent, calls |-> <<>>]
    /\ created = {}
    /\ deleted = <<>>
    /\ served = 0
    /\ boot = BootReady
    /\ health = HealthIdle
    /\ procs = [p \in Slots |-> IdleProc]
    /\ writeLog = NoWrites

(* A request in flight after its first call; rd is what it read so far *)
Running(pc, op, arg, rd) ==
    [pc |-> pc, op |-> op, arg |-> arg, started |-> now, rd |-> rd,
     afterDelete |-> op = "get" /\ arg \in DOMAIN writeLog.del]

(* The response of the request in slot p leaves the service *)
Return(p, r, status, body) ==
    /\ last' = [op |-> r.op, arg |-> r.arg, at |-> now, started |-> r.started,
                afterDelete |-> r.afterDelete, status |-> status, body |-> body,
                calls |-> <<>>]
    /\ procs' = [procs EXCEPT ![p] = IdleProc]
    /\ served' = served + 1
    /\ writeLog' = IF r.op = "create" /\ status = 201
                   THEN [writeLog EXCEPT !.last = now]
                   ELSE IF r.op = "delete" /\ status = 204
                   THEN [last |-> now,
                         del  |-> [i \in DOMAIN writeLog.del \cup {r.arg} |->
                                      IF i = r.arg THEN now ELSE writeLog.del[i]]]
                   ELSE writeLog
    /\ UNCHANGED <<now, created, deleted, service>>

Continue(p, r) ==
    /\ procs' = [procs EXCEPT ![p] = r]
    /\ UNCHANGED <<now, last, created, deleted, served, service, writeLog>>

(* get_transaction: cache.get, and the return on a hit *)
StartGet ==
    /\ CanStart
    /\ \E p \in Slots, id \in Ids :
        /\ FreeSlot(p)
        /\ LET g == CacheGet(cache, ItemKey(id), now, FALSE)
               r == Running("get.select", "get", id, <<>>)
           IN  IF Truthy(g)
               THEN Return(p, r, 200, Respond(TransactionResponse(g.value)))
               ELSE Continue(p, r)
        /\ UNCHANGED <<store, nextId, cache>>

(* get_transaction: the select, and the 404 when the row is absent *)
GetSelect ==
    \E p \in Slots :
        /\ procs[p].pc = "get.select"
        /\ IF procs[p].arg \notin DOMAIN store
           THEN Return(p, procs[p], 404, NotFoundBody)
           ELSE Continue(p, [procs[p] EXCEPT !.pc = "get.set", !.rd = store[procs[p].arg]])
        /\ UNCHANGED <<store, nextId, cache>>

(* get_transaction: cache.set of the row it selected, and the return *)
GetSet ==
    \E p \in Slots :
        /\ procs[p].pc = "get.set"
        /\ LET response == model_validate(procs[p].rd)
           IN  /\ cache' = CacheSet(cache, ItemKey(procs[p].arg), model_dump_json(response),
                                    ItemTTL, now, FALSE).cache
               /\ Return(p, procs[p], 200, Respond(response))
        /\ UNCHANGED <<store, nextId>>

(* get_transactions: cache.get, and the return on a hit *)
StartList ==
    /\ CanStart
    /\ \E p \in Slots, pg \in Pages :
        /\ FreeSlot(p)
        /\ LET g == CacheGet(cache, ListKey(pg[1], pg[2]), now, FALSE)
               r == Running("list.select", "list", pg, <<>>)
           IN  IF Truthy(g)
               THEN Return(p, r, 200, RespondList(TransactionListParse(g.value)))
               ELSE Continue(p, r)
        /\ UNCHANGED <<store, nextId, cache>>

(* get_transactions: the select with offset and limit *)
ListSelect ==
    \E p \in Slots :
        /\ procs[p].pc = "list.select"
        /\ Continue(p, [procs[p] EXCEPT !.pc = "list.set",
                           !.rd = SelectPage(store, procs[p].arg[1], procs[p].arg[2])])
        /\ UNCHANGED <<store, nextId, cache>>

(* get_transactions: cache.set of the page it selected, and the return *)
ListSet ==
    \E p \in Slots :
        /\ procs[p].pc = "list.set"
        /\ LET transactions == procs[p].rd
               response == TransactionList(
                               [i \in DOMAIN transactions |-> model_validate(transactions[i])],
                               Len(transactions))
           IN  /\ cache' = CacheSet(cache, ListKey(procs[p].arg[1], procs[p].arg[2]),
                                    list_dump_json(response), ListTTL, now, FALSE).cache
               /\ Return(p, procs[p], 200, RespondList(response))
        /\ UNCHANGED <<store, nextId>>

(* create_transaction: validation, then add, commit and refresh *)
StartCreate ==
    /\ CanStart
    /\ \E p \in Slots, payload \in Payloads :
        /\ FreeSlot(p)
        /\ IF ~Valid(payload)
           THEN /\ Return(p, Running("create", "create", payload, <<>>), 422, ValidationBody)
                /\ UNCHANGED <<store, nextId>>
           ELSE LET db_transaction == InsertRow(TransactionCreate(payload), nextId, now)
                IN  /\ store' = [i \in DOMAIN store \cup {nextId} |->
                                    IF i = nextId THEN db_transaction ELSE store[i]]
                    /\ nextId' = nextId + 1
                    /\ Continue(p, Running("create.invalidate", "create", payload, db_transaction))
        /\ UNCHANGED cache

(* create_transaction: the wildcard cache.delete, and the return *)
CreateInvalidate ==
    \E p \in Slots :
        /\ procs[p].pc = "create.invalidate"
        /\ cache' = CacheDelete(cache, WildcardKey, FALSE).cache
        /\ Return(p, procs[p], 201, Respond(model_validate(procs[p].rd)))
        /\ UNCHANGED <<store, nextId>>

(* delete_transaction: the select, and the 404 when the row is absent *)
StartDelete ==
    /\ CanStart
    /\ \E p \in Slots, id \in Ids :
        /\ FreeSlot(p)
        /\ IF id \notin DOMAIN store
           THEN Return(p, Running("delete", "delete", id, <<>>), 404, NotFoundBody)
           ELSE Continue(p, Running("delete.commit", "delete", id, <<>>))
        /\ UNCHANGED <<store, nextId, cache>>

(* delete_transaction: db.delete and db.commit *)
DeleteCommit ==
    \E p \in Slots :
        /\ procs[p].pc = "delete.commit"
        /\ store' = [i \in DOMAIN store \ {procs[p].arg} |-> store[i]]
        /\ Continue(p, [procs[p] EXCEPT !.pc = "delete.item"])
        /\ UNCHANGED <<nextId, cache>>

(* delete_transaction: cache.delete of the single-item key *)
DeleteItemKey ==
    \E p \in Slots :
        /\ procs[p].pc = "delete.item"
        /\ cache' = CacheDelete(cache, ItemKey(procs[p].arg), FALSE).cache
        /\ Continue(p, [procs[p] EXCEPT !.pc = "delete.lists"])
        /\ UNCHANGED <<store, nextId>>

(* delete_transaction: the wildcard cache.delete, and the 204 *)
DeleteListKeys ==
    \E p \in Slots :
        /\ procs[p].pc = "delete.lists"
        /\ cache' = CacheDelete(cache, WildcardKey, FALSE).cache
        /\ Return(p, procs[p], 204, NoContent)
        /\ UNCHANGED <<store, nextId>>

NextConc ==
    \/ StartGet \/ GetSelect \/ GetSet
    \/ StartList \/ ListSelect \/ ListSet
    \/ StartCreate \/ CreateInvalidate
    \/ StartDelete \/ DeleteCommit \/ DeleteItemKey \/ DeleteListKeys
    \/ Tick

SpecConc == InitConc /\ [][NextConc]_vars

----------------------------------------------------------------------------
(* Properties *)

IsItemKey(k) == Len(k) = 2 /\ k[1] = "transaction"
IsListKey(k) == Len(k) = 4 /\ k[1] = "transactions" /\ k[2] = "all"

(* This step serves a request *)
RequestStep == served' = served + 1

(* C1: with every cache call succeeding, once delete(id) has returned 204  *)
(* the cache holds no entry under the single-item key of id, and every     *)
(* later get_by_id(id) yields 404, also when id was cached before.         *)
C1_DeleteThenGetNotFound ==
    /\ \A id \in DOMAIN deleted : ItemKey(id) \notin DOMAIN cache
    /\ (last.op = "get" /\ last.arg \in DOMAIN deleted) => last.status = 404

(* a get_by_id answered 404 for an id that was cached when it was deleted *)
C1_Witness ==
    /\ last.op = "get" /\ last.arg \in DOMAIN deleted
    /\ deleted[last.arg]
    /\ last.status = 404

(* What the Store alone answers *)
StorePage(skip, limit) ==
    LET rows == SelectPage(store, skip, limit)
    IN  RespondList(TransactionList([i \in DOMAIN rows |-> model_validate(rows[i])], Len(rows)))

StoreItem(id) == Respond(model_validate(store[id]))

(* C2: after a successful create or delete no list-cache entry populated   *)
(* before it remains, so a list issued afterwards returns the page as the  *)
(* Store currently holds it.                                               *)
C2_WriteDropsListCache ==
    /\ (last.op \in {"create", "delete"} /\ last.status \in {201, 204})
           => \A k \in DOMAIN cache : ~IsListKey(k)
    /\ last.op = "list" => last.body = StorePage(last.arg[1], last.arg[2])

(* C3: list(skip, limit) returns exactly min(limit, max(0, N - skip))      *)
(* transactions, N being the number of records in the Store.               *)
C3_PageSize ==
    last.op = "list" =>
        Len(last.body.transactions)
            = Min(last.arg[2], Max(0, Cardinality(DOMAIN store) - last.arg[1]))

(* C4: whatever cache calls fail, each get_by_id returns what the Store    *)
(* alone would return: the record it holds, or NotFoundError.              *)
C4_GetMatchesStoreAlone ==
    last.op = "get" =>
        IF last.arg \in DOMAIN store
        THEN last.status = 200 /\ last.body = StoreItem(last.arg)
        ELSE last.status = 404

(* The request of this step, served with an empty cache whose calls all succeed *)
WithEmptyWorkingCache(op, arg) ==
    CASE op = "create" -> create_transaction(store, nextId, <<>>, now, arg, FALSE)
      [] op = "get"    -> get_transaction(store, nextId, <<>>, now, arg, FALSE, FALSE)
      [] op = "list"   -> get_transactions(store, nextId, <<>>, now, arg[1], arg[2], FALSE, FALSE)
      [] op = "delete" -> delete_transaction(store, nextId, <<>>, arg, FALSE, FALSE)

(* C5: no cache backend error reaches a caller: a request in which a cache *)
(* call fails completes with the status and body (and Store effect) it     *)
(* would have with an empty, working cache; a failed get is followed by    *)
(* the Store query, a failed set or delete by the rest of the handler.     *)
C5_CacheErrorsAbsorbed ==
    [][ (RequestStep /\ SomeCallFailed(last'.calls)) =>
            LET ref == WithEmptyWorkingCache(last'.op, last'.arg)
            IN  /\ last'.status = ref.status
                /\ last'.body = ref.body
                /\ store' = ref.store
                /\ last'.status # 500
                /\ Len(last'.calls) = Len(ref.calls)
                /\ \A i \in DOMAIN ref.calls : last'.calls[i].call = ref.calls[i].call
      ]_vars

(* a get_by_id whose cache get and cache set both failed, answered 200 *)
C5_Witness ==
    /\ last.op = "get" /\ last.status = 200
    /\ Len(last.calls) = 3
    /\ ~last.calls[1].ok /\ ~last.calls[3].ok

NoStoreAccess(calls) == \A i \in DOMAIN calls : calls[i].call \in {"cache.get", "cache.set", "cache.delete"}

IsHit(l) == Len(l.calls) = 1 /\ l.calls[1].call = "cache.get" /\ l.status = 200

(* the request was a miss that found the record and wrote it to the cache *)
Populated(l) ==
    /\ Len(l.calls) = 3
    /\ l.calls[3].call = "cache.set" /\ l.calls[3].ok /\ l.calls[3].ttl = ItemTTL

(* two consecutive get_by_id calls for the same id, which is in the Store *)
GetPair ==
    /\ RequestStep
    /\ last.op = "get" /\ last'.op = "get" /\ last'.arg = last.arg
    /\ last.arg \in DOMAIN store

(* C6 as stated: for an existing id, the second of two consecutive         *)
(* get_by_id calls returns the first's representation and performs no      *)
(* Store access.                                                           *)
C6_SecondGetNeverReadsStore ==
    [][ GetPair => (last'.body = last.body /\ NoStoreAccess(last'.calls)) ]_vars

(* C6 amended: the second call returns the first's representation; it      *)
(* performs no Store access when the first was a miss whose cache set      *)
(* (TTL 300 s) succeeded, less than 300 s have passed since, and its own   *)
(* cache get succeeds. A miss that finds the record writes that            *)
(* representation under the single-item key with TTL 300 s, and a cache    *)
(* hit makes no Store call.                                                *)
C6_ConsecutiveGets ==
    [][ /\ GetPair =>
               /\ last'.status = 200 /\ last'.body = last.body
               /\ (Populated(last) /\ now - last.at < ItemTTL /\ last'.calls[1].ok)
                      => (IsHit(last') /\ NoStoreAccess(last'.calls))
        /\ (RequestStep /\ last'.op = "get" /\ Populated(last')) =>
               /\ ItemKey(last'.arg) \in DOMAIN cache'
               /\ cache'[ItemKey(last'.arg)].exp = now + ItemTTL
               /\ json_loads(cache'[ItemKey(last'.arg)].data) = last'.body
        /\ (RequestStep /\ last'.op = "get" /\ Truthy(CacheGet(cache, ItemKey(last'.arg), now, ~last'.calls[1].ok))) =>
               (IsHit(last') /\ NoStoreAccess(last'.calls))
      ]_vars

(* the third request of a run is a cache hit: create, get (miss), get (hit) *)
C6_Witness ==
    /\ served = 3
    /\ last.op = "get" /\ IsHit(last)
    /\ last.arg \in DOMAIN store

(* The validity the claims speak of *)
ClaimValid(p) ==
    /\ Has(p, "amount") /\ p.amount > 0
    /\ Has(p, "merchant") /\ p.merchant # ""
    /\ Has(p, "currency") => Len(p.currency) = 3

ClaimInvalid(p) ==
    \/ Has(p, "amount") /\ p.amount <= 0
    \/ ~Has(p, "merchant")
    \/ Has(p, "merchant") /\ p.merchant = ""
    \/ Has(p, "currency") /\ Len(p.currency) # 3

C8_InvalidCreateRejected ==
    [][ (RequestStep /\ last'.op = "create" /\ ClaimInvalid(last'.arg)) =>
            /\ last'.status = 422
            /\ store' = store /\ nextId' = nextId
            /\ cache' = cache
            /\ last'.calls = <<>>
      ]_vars

(* an invalid create answered 422 while the Store and the cache hold data *)
C8_Witness ==
    /\ last.op = "create" /\ last.status = 422
    /\ store # <<>> /\ cache # <<>>

(* C9: get_by_id on an id never created yields 404 and writes nothing to   *)
(* the cache; no single-item entry exists for such an id.                  *)
C9_NeverCreatedNotFound ==
    /\ \A k \in DOMAIN cache : IsItemKey(k) => k[2] \in created
    /\ (last.op = "get" /\ last.arg \notin created) =>
           /\ last.status = 404
           /\ \A i \in DOMAIN last.calls : last.calls[i].call # "cache.set"

(* a 404 for a never-created id while another id is stored and cached *)
C9_Witness ==
    /\ last.op = "get" /\ last.arg \notin created /\ last.status = 404
    /\ \E id \in DOMAIN store : ItemKey(id) \in DOMAIN cache

(* C10: delete on an id absent from the Store yields 404 and nothing else: *)
(* the Store is unchanged, no Store delete is issued and no cache key is   *)
(* deleted.                                                                *)
C10_DeleteAbsentNoEffect ==
    [][ (RequestStep /\ last'.op = "delete" /\ last'.arg \notin DOMAIN store) =>
            /\ last'.status = 404
            /\ store' = store /\ nextId' = nextId
            /\ cache' = cache
            /\ last'.calls = <<DbCall("db.select")>>
      ]_vars

(* a delete answered 404 while the cache holds entries *)
C10_Witness ==
    /\ last.op = "delete" /\ last.status = 404
    /\ \E k \in DOMAIN cache : IsItemKey(k)
    /\ \E k \in DOMAIN cache : IsListKey(k)

(* C14: the cache never originates data. Whenever a step writes or        *)
(* changes a cache entry, the value is the one the Store returned to that  *)
(* request for the key's own query: the record of that id (never for an id *)
(* the Store does not hold), or the page of that (skip, limit); and an     *)
(* entry for an id still in the Store is a copy of its record.             *)
C14_CacheOnlyCopiesStore ==
    [][ /\ \A k \in DOMAIN cache' :
              (k \notin DOMAIN cache \/ cache'[k] # cache[k]) =>
                  \/ /\ IsItemKey(k)
                     /\ k[2] \in DOMAIN store
                     /\ json_loads(cache'[k].data) = StoreItem(k[2])
                  \/ /\ IsListKey(k)
                     /\ json_loads(cache'[k].data) = StorePage(k[3], k[4])
        /\ \A k \in DOMAIN cache' :
              (IsItemKey(k) /\ k[2] \in DOMAIN store') =>
                  json_loads(cache'[k].data) = Respond(model_validate(store'[k[2]]))
      ]_vars

(* the cache holds the copy of a record the Store no longer holds, and a page *)
C14_Witness ==
    /\ \E k \in DOMAIN cache : IsItemKey(k) /\ k[2] \notin DOMAIN store
    /\ \E k \in DOMAIN cache : IsListKey(k) /\ Len(json_loads(cache[k].data).transactions) > 0

(* C16: create never writes a cache entry: it makes no cache set, adds and *)
(* changes no key, and the single-item key of the new id is absent after   *)
(* it; a single-item key becomes present only by a get_by_id of that id    *)
(* that missed the cache and found the record in the Store.                *)
C16_CreateDoesNotPopulate ==
    [][ /\ (RequestStep /\ last'.op = "create") =>
               /\ \A i \in DOMAIN last'.calls : last'.calls[i].call # "cache.set"
               /\ \A k \in DOMAIN cache' : k \in DOMAIN cache /\ cache'[k] = cache[k]
               /\ last'.status = 201 => ItemKey(last'.body.id) \notin DOMAIN cache'
        /\ \A id \in 1..nextId :
               (ItemKey(id) \notin DOMAIN cache /\ ItemKey(id) \in DOMAIN cache') =>
                   /\ RequestStep
                   /\ last'.op = "get" /\ last'.arg = id
                   /\ Populated(last')
                   /\ ~Live(cache, ItemKey(id), now)
                   /\ id \in DOMAIN store
      ]_vars

(* a successful create, with other entries cached, leaves its own id uncached *)
C16_Witness ==
    /\ last.op = "create" /\ last.status = 201
    /\ \E k \in DOMAIN cache : IsItemKey(k)
    /\ ItemKey(last.body.id) \notin DOMAIN cache

(* C17: every list response, from the Store or from the cache, has total   *)
(* equal to the number of transactions in it, and that number is at most   *)
(* limit.                                                                  *)
C17_TotalIsPageLength ==
    last.op = "list" =>
        /\ last.status = 200
        /\ last.body.total = Len(last.body.transactions)
        /\ Len(last.body.transactions) <= last.arg[2]

(* a page served from the cache whose total is below the Store's row count *)
C17_Witness ==
    /\ last.op = "list" /\ Len(last.calls) = 1
    /\ last.body.total >= 1
    /\ Cardinality(DOMAIN store) > last.body.total

IsStoreWrite(x) == x.call \in {"db.add", "db.delete", "db.commit"}
IsCacheCall(x) == x.call \in {"cache.get", "cache.set", "cache.delete"}
CountOf(calls, name) == Cardinality({i \in DOMAIN calls : calls[i].call = name})

(* C15: in create and delete every cache invalidation comes after a commit *)
(* that succeeded and no Store write comes after an invalidation; when a   *)
(* Store write raises, the request answers 500, commits at most once (no   *)
(* retry), makes no cache call, and leaves the cache as it was.            *)
C15_InvalidateAfterCommit ==
    [][ (RequestStep /\ last'.op \in {"create", "delete"}) =>
          LET cs == last'.calls
          IN  /\ \A i \in DOMAIN cs :
                     cs[i].call = "cache.delete" =>
                         /\ \E j \in 1..(i - 1) : cs[j].call = "db.commit" /\ cs[j].ok
                         /\ \A j \in (i + 1)..Len(cs) : ~IsStoreWrite(cs[j])
              /\ CountOf(cs, "db.commit") <= 1
              /\ \A i \in DOMAIN cs : cs[i].call # "cache.set"
              /\ (cache' # cache) => (\E j \in DOMAIN cs : cs[j].call = "db.commit" /\ cs[j].ok)
              /\ (\E i \in DOMAIN cs : IsStoreWrite(cs[i]) /\ ~cs[i].ok) =>
                     /\ last'.status = 500
                     /\ \A i \in DOMAIN cs : ~IsCacheCall(cs[i])
                     /\ cache' = cache
                     /\ store' = store
      ]_vars

(* a delete whose commit raised, of a stored and cached id: both are kept *)
C15_Witness ==
    /\ last.op = "delete" /\ last.status = 500
    /\ \E i \in DOMAIN last.calls : last.calls[i].call = "db.commit" /\ ~last.calls[i].ok
    /\ last.arg \in DOMAIN store
    /\ ItemKey(last.arg) \in DOMAIN cache

HealthBodyRight ==
    /\ health.body.status = (IF health.dbOk /\ health.pingOk THEN "ok" ELSE "degraded")
    /\ health.body.database = (IF health.dbOk THEN "up" ELSE "down")
    /\ health.body.redis = (IF health.pingOk THEN "up" ELSE "down")

(* C12 as stated: every health check answers 200, with status "ok"         *)
(* exactly when the Store query succeeded and the ping returned true,      *)
(* "degraded" otherwise, database and redis each following its own probe.  *)
C12_HealthAlwaysAnswers ==
    health.code # 0 => (health.code = 200 /\ HealthBodyRight)

(* C12: a health check that is within the limit of 30 per minute answers   *)
(* 200 with status "ok" exactly when both probes succeeded, "degraded"     *)
(* otherwise, database and redis each following its own probe; one beyond  *)
(* the limit is answered 429.                                              *)
C12_HealthWithinLimit ==
    health.code # 0 =>
        /\ (health.seq <= HealthRateLimit \/ health.code = 200) =>
               (health.code = 200 /\ HealthBodyRight)
        /\ health.code \in {200, 429}
        /\ health.code = 429 => health.seq > HealthRateLimit

(* the cache is down and the Store up: degraded, up, down, answered 200 *)
C12_Witness ==
    /\ health.code = 200
    /\ health.dbOk /\ ~health.pingOk
    /\ health.body.status = "degraded"
    /\ health.body.database = "up" /\ health.body.redis = "down"

Pow2(n) == IF n = 1 THEN 2 ELSE IF n = 2 THEN 4 ELSE IF n = 3 THEN 8 ELSE 16

StartupSafe ==
    /\ boot.attempts <= 5
    /\ Len(boot.slept) <= 4
    /\ \A k \in DOMAIN boot.slept : boot.slept[k] = Pow2(k)
    /\ boot.pc = "ready" => Len(boot.slept) = boot.attempts - 1
    /\ boot.pc = "failed" => boot.attempts = 5 /\ Len(boot.slept) = 4
    /\ boot.pc # "ready" => health = HealthIdle

(* C18: the startup check makes at most 5 attempts, sleeps 2, 4, 8, 16     *)
(* seconds after the 1st to 4th failures, makes no attempt after one that  *)
(* succeeded, raises after the 5th failure without another sleep, serves   *)
(* no request unless an attempt succeeded, and always comes to an end.     *)
C18_StartupTerminates ==
    /\ []StartupSafe
    /\ [][boot.pc \in {"ready", "failed"} => boot' = boot]_vars
    /\ <>(boot.pc \in {"ready", "failed"})

(* five attempts have failed: four sleeps were taken, no request served *)
C18_Witness ==
    /\ boot.pc = "failed"
    /\ boot.attempts = 5
    /\ boot.slept = <<2, 4, 8, 16>>

(* C13: with the handlers interleaved at every Store and cache call, a     *)
(* get_by_id(id) that started after a delete(id) had returned 204 answers  *)
(* 404 and never the deleted transaction.                                  *)
C13_GetAfterDeleteInterleaved ==
    (last.op = "get" /\ last.afterDelete) => last.status = 404

NoWriteInFlight == \A p \in Busy : procs[p].op \notin {"create", "delete"}

(* a list that began more than 60 s after the latest completed write *)
ListLongAfterWrite ==
    /\ RequestStep /\ last'.op = "list"
    /\ writeLog.last >= 0 /\ last'.started - writeLog.last > 60
    /\ NoWriteInFlight

(* a get_by_id that began more than 300 s after the delete of its id completed *)
GetLongAfterDelete ==
    /\ RequestStep /\ last'.op = "get"
    /\ last'.arg \in DOMAIN writeLog.del
    /\ last'.started - writeLog.del[last'.arg] > 300

(* a cache hit: a get or list that returns from its cache.get *)
HitStep ==
    /\ RequestStep /\ last'.op \in {"get", "list"} /\ last'.status = 200
    /\ Busy' = Busy

(* C11: with requests overlapping, a list that begins (and so is served)   *)
(* more than 60 s after the latest create or delete completed returns the  *)
(* page the Store holds, a get_by_id(id) that begins more than 300 s after *)
(* delete(id) completed answers 404, and a cache hit leaves every entry's  *)
(* expiry as it was.                                                       *)
C11_StalenessBoundedByTTL ==
    [][ /\ ListLongAfterWrite => last'.body = StorePage(last'.arg[1], last'.arg[2])
        /\ GetLongAfterDelete => last'.status = 404
        /\ HitStep => cache' = cache
      ]_vars

====
